---- MODULE Spec2Model ----
(***************************************************************************)
(* Model of the recipe recommender (src/src/recommender/                   *)
(* recipe_recommender.py) together with the part of the repository         *)
(* (src/src/database/queries.py, init_database.py) it reads.               *)
(*                                                                         *)
(* Numbers that are floats in the program are exact rationals <<n, d>>     *)
(* here (d > 0, lowest terms).  Optional values are None == <<>> or        *)
(* Some(v) == <<v>>.                                                       *)
(*                                                                         *)
(* A tf-idf vector is held as the set of its terms.  The cosine of a query *)
(* and a corpus row is 0 when they share no term and 1 when they have the  *)
(* same terms; otherwise it depends on the idf weights of the corpus and   *)
(* is chosen, per pair of vectors, when the vectorizer is fitted.          *)
(*                                                                         *)
(* Spec is the life of a deployment (recipes stored, recommender built,    *)
(* requests served from several recipes); SpecScore sends every shape of   *)
(* UserPreferences to a deployment that stores one recipe.  SpecRepeat     *)
(* sends the same requests again and again, SpecFault lets the database    *)
(* fail, SpecIndex calls find_similar_ingredients on an index with two     *)
(* similar entries, SpecNormalize applies preprocess_ingredient to texts   *)
(* given word by word, SpecRebuild runs a rebuild of the index beside a    *)
(* reader and SpecInsert follows insert_recipe statement by statement.     *)
(***************************************************************************)
EXTENDS Integers, Sequences, FiniteSets, TLC

VARIABLES
    recipes,                \* rows of the recipes table with their ingredients, in id order
    inserted,               \* what the last insert_recipe returned
    recommender,            \* "none", "ready" or "failed": the EnhancedRecipeRecommender object
    processed_ingredients,  \* IngredientProcessor.processed_ingredients
    ingredient_vectors,     \* IngredientProcessor.ingredient_vectors: per row, its terms
    vocabulary,             \* the terms of the fitted vectorizer
    cosine,                 \* the cosine of overlapping, unequal query and corpus vectors
    request,                \* the arguments of the last get_recommendations call
    scored,                 \* the score record of every candidate of that call
    result,                 \* what that call returned
    served,                 \* the first call served since the index or the repository changed
    ingredient_text,        \* the argument of a preprocess_ingredient call
    normalized,             \* what preprocess_ingredient returned for it, then for its own result
    lookup,                 \* a find_similar_ingredients call: its arguments and what it returned
    database,               \* "up" or "down": whether get_connection succeeds
    refit,                  \* a fit_transform_ingredients call between its two assignments
    reader,                 \* a find_similar_ingredients call in progress on another thread
    txn                     \* an insert_recipe call in progress: its connection and transaction

\* Records of calls of the pure functions.
unit_vars == <<ingredient_text, normalized, lookup>>

\* Calls that are followed statement by statement.
step_vars == <<refit, reader, txn>>

vars == <<recipes, inserted, recommender, processed_ingredients,
          ingredient_vectors, vocabulary, cosine, request, scored, result,
          served, unit_vars, step_vars, database>>

\* ------------------------------------------------------------------ bounds

\* Largest number of rows of the recipes table.
MaxRecipes == 2

\* Longest available_ingredients list of a request.
MaxAvailable == 2

\* Longest preferred_ingredients list of a request.
MaxPreferred == 2

\* Most words and marks of an ingredient text given to preprocess_ingredient.
MaxWords == 4

\* ---------------------------------------------------------------- optionals

None == <<>>

Some(v) == <<v>>

IsNone(o) == o = <<>>

Get(o) == o[1]

\* ---------------------------------------------------------------- rationals

Abs(x) == IF x < 0 THEN -x ELSE x

RECURSIVE Gcd(_, _)
Gcd(a, b) == IF b = 0 THEN a ELSE Gcd(b, a % b)

\* n/d in lowest terms with a positive denominator (d # 0).
Rat(n, d) ==
    LET s == IF d < 0 THEN -1 ELSE 1
        g == Gcd(Abs(n), Abs(d))
    IN  <<(s * n) \div g, (s * d) \div g>>

Zero == Rat(0, 1)

One == Rat(1, 1)

RatAdd(a, b) == Rat(a[1] * b[2] + b[1] * a[2], a[2] * b[2])

RatSub(a, b) == Rat(a[1] * b[2] - b[1] * a[2], a[2] * b[2])

RatMul(a, b) == Rat(a[1] * b[1], a[2] * b[2])

RatLess(a, b) == a[1] * b[2] < b[1] * a[2]

RatLeq(a, b) == a[1] * b[2] <= b[1] * a[2]

RatMax(a, b) == IF RatLess(a, b) THEN b ELSE a

\* ------------------------------------------------------------------ strings

\* Ingredient names as stored in the ingredients table.
RecipeNames == {"Garlic", "chicken breast"}

\* Names a user may type into available_ingredients.
AvailableNames == {"garlic", "chicken"}

\* Names a user may type into preferred_ingredients.
PreferenceNames == {"GARLIC", "chicken"}

\* str.lower()
Lower(s) ==
    CASE s = "Garlic" -> "garlic"
      [] s = "GARLIC" -> "garlic"
      [] OTHER -> s

\* The word tokens of a lower-cased name (word_tokenize).
Tokens(s) ==
    CASE s = "chicken breast" -> <<"chicken", "breast">>
      [] s = "chicken thigh" -> <<"chicken", "thigh">>
      [] s = "" -> <<>>
      [] OTHER -> <<s>>

\* ' '.join(tokens)
Join(toks) ==
    CASE toks = <<"chicken", "breast">> -> "chicken breast"
      [] toks = <<"chicken", "thigh">> -> "chicken thigh"
      [] toks = <<>> -> ""
      [] OTHER -> toks[1]

\* The names above hold no quantity, unit, parenthesis, preparation word,
\* stop word or inflected form: of the steps of preprocess_ingredient only
\* lower-casing and tokenizing change them.  (preprocess_words below takes
\* every step, on texts that hold such words.)
preprocess_ingredient(text) == Join(Tokens(Lower(text)))

\* ---------------------------------------------------- the normalizer by word

\* preprocess_ingredient on a text written as the sequence of its words and
\* marks, which one blank separates.  What a substitution removes leaves its
\* blanks behind: a Gap stands for them.
Lexemes == {"2", "cup", "cups", "(", ")", ",", "chopped", "to", "taste", "Garlic"}

Gap == " "

\* \d+\/?\d*
Numbers == {"2"}

\* (?:cup|tablespoon|...|cups|...)s?\b
UnitWords == {"cup", "cups"}

\* The one-word alternatives of prep_words.
PrepWords == {"chopped"}

\* stopwords.words('english')
StopWords == {"to"}

\* text.lower()
lower_words(words) == [i \in DOMAIN words |-> Lower(words[i])]

\* re.sub(units, '', text): a number, blanks if any, a unit word.
RECURSIVE remove_units(_)
remove_units(words) ==
    IF words = <<>> THEN <<>>
    ELSE IF Len(words) >= 2 /\ words[1] \in Numbers /\ words[2] \in UnitWords
    THEN <<Gap>> \o remove_units(SubSeq(words, 3, Len(words)))
    ELSE <<words[1]>> \o remove_units(Tail(words))

\* re.sub(r'\([^)]*\)', '', text): from a "(" to the next ")".
RECURSIVE remove_parentheticals(_)
remove_parentheticals(words) ==
    IF words = <<>> THEN <<>>
    ELSE LET closing == {j \in 2..Len(words) : words[j] = ")"}
         IN  IF words[1] = "(" /\ closing # {}
             THEN LET j == CHOOSE j \in closing : \A l \in closing : j <= l
                  IN  <<Gap>> \o remove_parentheticals(
                                    SubSeq(words, j + 1, Len(words)))
             ELSE <<words[1]>> \o remove_parentheticals(Tail(words))

\* re.sub(prep_words, '', text): a preparation word, or the words "to taste"
\* with exactly one blank between them.
RECURSIVE remove_prep_words(_)
remove_prep_words(words) ==
    IF words = <<>> THEN <<>>
    ELSE IF words[1] \in PrepWords
    THEN <<Gap>> \o remove_prep_words(Tail(words))
    ELSE IF Len(words) >= 2 /\ words[1] = "to" /\ words[2] = "taste"
    THEN <<Gap>> \o remove_prep_words(SubSeq(words, 3, Len(words)))
    ELSE <<words[1]>> \o remove_prep_words(Tail(words))

NotGap(word) == word # Gap

\* word_tokenize(text): the words and the marks; blanks separate them.
word_tokenize(words) == SelectSeq(words, NotGap)

\* token.isalnum() and token not in self.stop_words
KeepToken(token) == token \notin {"(", ")", ","} /\ token \notin StopWords

\* self.lemmatizer.lemmatize(token)
lemmatize(token) == IF token = "cups" THEN "cup" ELSE token

\* preprocess_ingredient, returning the words of the string it returns.
preprocess_words(words) ==
    LET lowered == lower_words(words)
        no_units == remove_units(lowered)
        no_parentheticals == remove_parentheticals(no_units)
        no_prep_words == remove_prep_words(no_parentheticals)
        tokens == SelectSeq(word_tokenize(no_prep_words), KeepToken)
    IN  [i \in DOMAIN tokens |-> lemmatize(tokens[i])]

\* ------------------------------------------------------------------- terms

\* The terms TfidfVectorizer(analyzer='word', ngram_range=(1, 2)) counts in a
\* processed string: its words and its pairs of adjacent words.
Terms(p) ==
    LET toks == Tokens(p)
    IN  {toks[i] : i \in 1..Len(toks)}
          \cup {Join(<<toks[i], toks[i + 1]>>) : i \in 1..(Len(toks) - 1)}

\* --------------------------------------------------------------- sequences

\* All sequences over S of length at most n.
Lists(S, n) == UNION {[1..k -> S] : k \in 0..n}

\* All orders in which the elements of the finite set S can be listed.
Orders(S) ==
    {o \in [1..Cardinality(S) -> S] : \A x \in S : \E i \in DOMAIN o : o[i] = x}

RECURSIVE InsertDesc(_, _)
InsertDesc(s, x) ==
    IF s = <<>> THEN <<x>>
    ELSE IF RatLess(Head(s)[2], x[2]) THEN <<x>> \o s
    ELSE <<Head(s)>> \o InsertDesc(Tail(s), x)

\* sorted(pairs, key=lambda x: x[1], reverse=True): descending by the second
\* component; the sort is stable, pairs with equal keys keep their order.
RECURSIVE sorted_reverse(_)
sorted_reverse(s) ==
    IF s = <<>> THEN <<>>
    ELSE InsertDesc(sorted_reverse(SubSeq(s, 1, Len(s) - 1)), s[Len(s)])

\* s[:n] of Python: a negative n counts from the end.
SliceTo(s, n) ==
    IF n >= 0 THEN SubSeq(s, 1, IF n < Len(s) THEN n ELSE Len(s))
    ELSE SubSeq(s, 1, IF Len(s) + n > 0 THEN Len(s) + n ELSE 0)

\* The elements of s for which Keep holds, in order.
RECURSIVE SelectIdx(_, _)
SelectIdx(s, keep) ==
    IF s = <<>> THEN <<>>
    ELSE LET rest == SelectIdx(SubSeq(s, 1, Len(s) - 1), keep)
         IN  IF Len(s) \in keep THEN Append(rest, s[Len(s)]) ELSE rest

\* --------------------------------------------------------------- repository

\* Values of the prep_time and cook_time columns (INTEGER, nullable).
PrepTimes == {None, Some(0), Some(10)}

CookTimes == {None, Some(30)}

\* Ingredient-name sets a stored recipe may have.
IngredientSets == SUBSET RecipeNames

\* Trigger update_total_time, run BEFORE INSERT on recipes.
update_total_time(prep_time, cook_time) ==
    IF IsNone(prep_time) /\ IsNone(cook_time) THEN None
    ELSE Some((IF IsNone(prep_time) THEN 0 ELSE Get(prep_time))
              + (IF IsNone(cook_time) THEN 0 ELSE Get(cook_time)))

\* The Recipe that get_recipe_by_id builds from a stored row and its
\* ingredient rows; total_time is what the trigger stored.
StoredRow(id, prep_time, cook_time, names) ==
    [id |-> id,
     prep_time |-> prep_time,
     cook_time |-> cook_time,
     total_time |-> update_total_time(prep_time, cook_time),
     ingredients |-> names]

\* RecipeRepository.get_recipes(limit, offset): SELECT id FROM recipes
\* ORDER BY id LIMIT limit OFFSET offset, then get_recipe_by_id for each id.
\* The variable recipes holds the rows in id order.
get_recipes(limit, offset) ==
    SubSeq(recipes, offset + 1,
           IF offset + limit < Len(recipes) THEN offset + limit ELSE Len(recipes))

\* RecipeRepository.insert_recipe: the recipe row (total_time set by the
\* trigger) and its ingredient rows are committed together and the new id
\* returned, or a failing statement rolls all of them back and None is
\* returned.
insert_recipe(prep_time, cook_time, names) ==
    /\ Len(recipes) < MaxRecipes
    /\ \/ /\ recipes' = Append(recipes,
                StoredRow(Len(recipes) + 1, prep_time, cook_time, names))
          /\ inserted' = Some(Len(recipes) + 1)
       \/ /\ recipes' = recipes
          /\ inserted' = None
    /\ UNCHANGED <<recommender, processed_ingredients, ingredient_vectors,
                   vocabulary, cosine, request, scored, result>>
    /\ UNCHANGED <<unit_vars, step_vars, database>>

\* -------------------------------------------------------------------- index

\* Cosine values a query may have with a corpus entry that shares some but
\* not all of its terms; the value depends on the idf weights of the corpus.
SimLevels == {Rat(4, 10), Rat(6, 10)}

\* Ingredient names of a repository with two kinds of chicken.
CorpusNames == RecipeNames \cup {"chicken thigh"}

\* Strings passed to find_similar_ingredients: the user's available
\* ingredients and the lower-cased names of a recipe.
QueryStrings == AvailableNames \cup {Lower(n) : n \in CorpusNames}

\* vectorizer.transform([processed]): the terms of the fitted vocabulary that
\* occur in the processed string; terms unseen at fit time are dropped.
transform(processed, vocab) == Terms(processed) \cap vocab

\* Pairs (query vector, corpus vector) that overlap without being equal.
PartialPairs(rows, vocab) ==
    {pr \in {transform(preprocess_ingredient(q), vocab) : q \in QueryStrings}
              \X {rows[i] : i \in DOMAIN rows} :
        pr[1] \cap pr[2] # {} /\ pr[1] # pr[2]}

\* [self.preprocess_ingredient(ing) for ing in ingredients]
Processed(ingredients) ==
    [i \in DOMAIN ingredients |-> preprocess_ingredient(ingredients[i])]

\* vectorizer.fit_transform(processed): one row per processed string, held as
\* the set of terms with a non-zero weight.
FitRows(processed) == [i \in DOMAIN processed |-> Terms(processed[i])]

\* The vocabulary the vectorizer learns: every term of every row.
FitVocabulary(rows) == UNION {rows[i] : i \in DOMAIN rows}

\* IngredientProcessor.fit_transform_ingredients on a corpus with at least
\* one term: processed_ingredients, then the fitted vectorizer and the
\* tf-idf rows.
fit_transform_ingredients(ingredients) ==
    LET processed == Processed(ingredients)
        rows == FitRows(processed)
        vocab == FitVocabulary(rows)
    IN  /\ processed_ingredients' = processed
        /\ ingredient_vectors' = rows
        /\ vocabulary' = vocab
        /\ cosine' \in [PartialPairs(rows, vocab) -> SimLevels]

\* EnhancedRecipeRecommender.__init__ / initialize_ingredient_vectors: a new
\* recommender is built from the names of all stored recipes.  On a corpus
\* without any term TfidfVectorizer.fit_transform raises (empty vocabulary)
\* and no recommender object exists; nor does one when get_recipes raises
\* because get_connection does.
initialize_ingredient_vectors ==
    LET all_recipes == get_recipes(1000, 0)
        all_ingredients == UNION {all_recipes[i].ingredients :
                                     i \in DOMAIN all_recipes}
    IN  /\ \E ingredients \in Orders(all_ingredients) :
              IF \/ database = "down"
                 \/ UNION {Terms(preprocess_ingredient(n)) :
                              n \in all_ingredients} = {}
              THEN /\ recommender' = "failed"
                   /\ processed_ingredients' = <<>>
                   /\ ingredient_vectors' = <<>>
                   /\ vocabulary' = {}
                   /\ cosine' = <<>>
              ELSE /\ recommender' = "ready"
                   /\ fit_transform_ingredients(ingredients)
        /\ request' = None
        /\ scored' = <<>>
        /\ result' = None
        /\ UNCHANGED <<recipes, inserted>>
        /\ UNCHANGED <<unit_vars, step_vars, database>>

\* The cosine similarity of a query string and corpus row i.
Similarity(query, i) ==
    LET q == transform(preprocess_ingredient(query), vocabulary)
        row == ingredient_vectors[i]
    IN  IF q \cap row = {} THEN Zero
        ELSE IF q = row THEN One
        ELSE cosine[<<q, row>>]

\* similarities, each beside the processed ingredient of its row.
Similarities(query) ==
    [i \in 1..Len(ingredient_vectors) |->
        <<processed_ingredients[i], Similarity(query, i)>>]

\* A filter that keeps an entry whose similarity equals the threshold (>= in
\* place of >).
find_similar_ingredients_AtLeast(query, threshold) ==
    LET n == Len(ingredient_vectors)
        keep == {i \in 1..n : RatLeq(threshold, Similarity(query, i))}
    IN  sorted_reverse(SelectIdx(Similarities(query), keep))

\* IngredientProcessor.find_similar_ingredients(query, threshold)
find_similar_ingredients(query, threshold) ==
    LET n == Len(ingredient_vectors)
        keep == {i \in 1..n : RatLess(threshold, Similarity(query, i))}
        similar == SelectIdx([i \in 1..n |->
                       <<processed_ingredients[i], Similarity(query, i)>>], keep)
    IN  sorted_reverse(similar)

\* ------------------------------------------------------------------ scoring

\* Truth value of an Optional[int] in a Python condition: None and 0 are
\* false.
TruthyInt(o) == ~IsNone(o) /\ Get(o) # 0

\* Truth value of an Optional[List[str]]: None and the empty list are false.
TruthyList(o) == ~IsNone(o) /\ Get(o) # <<>>

Range(s) == {s[i] : i \in DOMAIN s}

\* EnhancedRecipeRecommender.get_recipe_ingredients
get_recipe_ingredients(recipe) == {Lower(n) : n \in recipe.ingredients}

\* any(sim[1] > 0.5 for sim in similar_ingredients)
AnyAboveInner(similar) ==
    \E k \in DOMAIN similar : RatLess(Rat(5, 10), similar[k][2])

\* EnhancedRecipeRecommender.calculate_ingredient_similarity: a user
\* ingredient adds one match when the recipe has an ingredient to iterate
\* over and the index holds an entry above 0.5 for the user ingredient; the
\* loop over the recipe's ingredients computes recipe_similar, never reads
\* it, and breaks at the first match.
calculate_ingredient_similarity(user_ingredients, recipe_ingredients) ==
    LET total_recipe_ingredients == Cardinality(recipe_ingredients)
        matches == Cardinality({i \in DOMAIN user_ingredients :
            /\ recipe_ingredients # {}
            /\ AnyAboveInner(
                   find_similar_ingredients(user_ingredients[i], Rat(3, 10)))})
    IN  IF total_recipe_ingredients > 0
        THEN Rat(matches, total_recipe_ingredients)
        ELSE Zero

\* A time score that gives full credit when the user states no max_time.
time_score_AbsentIsOne(recipe, preferences) ==
    IF IsNone(preferences.max_time) THEN One
    ELSE IF TruthyInt(preferences.max_time) /\ TruthyInt(recipe.total_time)
    THEN LET total_time == Get(recipe.total_time)
             max_time == Get(preferences.max_time)
         IN  IF total_time <= max_time THEN One
             ELSE RatMax(Zero, RatSub(One, Rat(total_time - max_time, max_time)))
    ELSE Zero

\* calculate_recipe_score, "Time score"
time_score(recipe, preferences) ==
    IF TruthyInt(preferences.max_time) /\ TruthyInt(recipe.total_time)
    THEN LET total_time == Get(recipe.total_time)
             max_time == Get(preferences.max_time)
         IN  IF total_time <= max_time THEN One
             ELSE RatMax(Zero, RatSub(One, Rat(total_time - max_time, max_time)))
    ELSE Zero

\* A preference score that compares the names as typed, without lower().
preference_score_CaseSensitive(recipe, preferences) ==
    IF TruthyList(preferences.preferred_ingredients)
    THEN LET preferred == Range(Get(preferences.preferred_ingredients))
             matches == recipe.ingredients \cap preferred
         IN  Rat(Cardinality(matches), Cardinality(preferred))
    ELSE Zero

\* calculate_recipe_score, "Preference score"
preference_score(recipe, preferences) ==
    IF TruthyList(preferences.preferred_ingredients)
    THEN LET recipe_ingredients == get_recipe_ingredients(recipe)
             preferred == {Lower(ing) :
                              ing \in Range(Get(preferences.preferred_ingredients))}
             matches == recipe_ingredients \cap preferred
         IN  Rat(Cardinality(matches), Cardinality(preferred))
    ELSE Zero

\* calculate_recipe_score, "Exclusion penalty"
exclusion_penalty(recipe, preferences) ==
    IF TruthyList(preferences.excluded_ingredients)
    THEN LET recipe_ingredients == get_recipe_ingredients(recipe)
             excluded == {Lower(ing) :
                             ing \in Range(Get(preferences.excluded_ingredients))}
             matches == recipe_ingredients \cap excluded
         IN  Rat(Cardinality(matches), 1)
    ELSE Zero

\* A total that weighs the preference score 0.4 instead of 0.3.
total_score_WrongWeight(scores) ==
    RatAdd(RatAdd(RatAdd(RatMul(scores.ingredient_match, Rat(4, 10)),
                         RatMul(scores.time_score, Rat(3, 10))),
                  RatMul(scores.preference_score, Rat(4, 10))),
           RatMul(scores.exclusion_penalty, Rat(-1, 1)))

\* calculate_recipe_score, "Calculate total score with weights"
total_score(scores) ==
    RatAdd(RatAdd(RatAdd(RatMul(scores.ingredient_match, Rat(4, 10)),
                         RatMul(scores.time_score, Rat(3, 10))),
                  RatMul(scores.preference_score, Rat(3, 10))),
           RatMul(scores.exclusion_penalty, Rat(-1, 1)))

\* EnhancedRecipeRecommender.calculate_recipe_score
calculate_recipe_score(recipe, preferences, ingredient_score) ==
    LET scores == [ingredient_match |-> ingredient_score,
                   time_score |-> time_score(recipe, preferences),
                   preference_score |-> preference_score(recipe, preferences),
                   exclusion_penalty |-> exclusion_penalty(recipe, preferences),
                   total_score |-> Zero]
    IN  [scores EXCEPT !.total_score = total_score(scores)]

\* EnhancedRecipeRecommender.get_matching_ingredients: a dict from user
\* ingredient to the recipe ingredients kept for it (a list in the iteration
\* order of a set of str, held here as a set).
get_matching_ingredients(user_ingredients, recipe_ingredients) ==
    LET similar == {recipe_ing \in recipe_ingredients :
            LET similarity == find_similar_ingredients(recipe_ing, Rat(3, 10))
            IN  similarity # <<>> /\ RatLess(Rat(3, 10), similarity[1][2])}
    IN  [user_ing \in {u \in Range(user_ingredients) : similar # {}} |-> similar]

\* ----------------------------------------------------------- recommendation

\* Values of UserPreferences.max_time.
MaxTimes == {None, Some(0), Some(15), Some(30)}

\* Values of num_recommendations.
Limits == {-1, 0, 1, 5}

OptionalLists(S, n) == {None} \cup {Some(l) : l \in Lists(S, n)}

\* Values of UserPreferences.excluded_ingredients.
ExcludedLists ==
    {None, Some(<<>>), Some(<<"GARLIC">>), Some(<<"GARLIC", "chicken breast">>)}

\* The UserPreferences objects of the requests.
Preferences ==
    [available_ingredients : OptionalLists(AvailableNames, MaxAvailable),
     max_time : MaxTimes,
     excluded_ingredients : ExcludedLists,
     preferred_ingredients : OptionalLists(PreferenceNames, MaxPreferred)]

\* The requests sent to a repository of several recipes.
ServicePreferences ==
    [available_ingredients :
        {None, Some(<<"garlic">>), Some(<<"chicken", "garlic">>)},
     max_time : {None, Some(30)},
     excluded_ingredients : {None, Some(<<"GARLIC">>)},
     preferred_ingredients : {None, Some(<<"GARLIC">>)}]

\* The requests clients send again and again.
RepeatPreferences ==
    [available_ingredients : {None, Some(<<"garlic">>)},
     max_time : {Some(30)},
     excluded_ingredients : {None},
     preferred_ingredients : {None, Some(<<"GARLIC">>)}]

\* get_recommendations, "Calculate ingredient similarity using NLP"
ingredient_score(preferences, recipe_ingredients) ==
    IF TruthyList(preferences.available_ingredients)
    THEN calculate_ingredient_similarity(
             Get(preferences.available_ingredients), recipe_ingredients)
    ELSE Zero

\* get_recommendations, the score record of one candidate
ScoreOf(recipe, preferences) ==
    calculate_recipe_score(recipe, preferences,
        ingredient_score(preferences, get_recipe_ingredients(recipe)))

\* A filter that keeps a total of exactly 0 (>= in place of >).
Kept_NonNegative(scores) == RatLeq(Zero, scores.total_score)

\* get_recommendations, "if scores['total_score'] > 0"
Kept(scores) == RatLess(Zero, scores.total_score)

\* get_recommendations, the entry appended for a kept candidate
Entry(recipe, preferences) ==
    [recipe |-> recipe,
     scores |-> ScoreOf(recipe, preferences),
     matching_ingredients |->
        get_matching_ingredients(
            IF TruthyList(preferences.available_ingredients)
            THEN Get(preferences.available_ingredients) ELSE <<>>,
            get_recipe_ingredients(recipe))]

\* A descending sort that is not stable: an ascending sort, then reversed, so
\* that candidates with equal totals come out in reverse order.
SortByTotal_TiesReversed(scored_recipes) ==
    LET n == Len(scored_recipes)
        keyed == [i \in 1..n |->
                     <<scored_recipes[n + 1 - i],
                       scored_recipes[n + 1 - i].scores.total_score>>]
        ordered == sorted_reverse(keyed)
    IN  [i \in DOMAIN ordered |-> ordered[i][1]]

\* scored_recipes.sort(key=lambda x: x['scores']['total_score'], reverse=True)
SortByTotal(scored_recipes) ==
    LET keyed == [i \in DOMAIN scored_recipes |->
                     <<scored_recipes[i], scored_recipes[i].scores.total_score>>]
        ordered == sorted_reverse(keyed)
    IN  [i \in DOMAIN ordered |-> ordered[i][1]]

\* A scored_recipes list that outlives the call (a list made once and shared
\* by all calls): the entries of the earlier call are still in it.
Recommendations_SharedList(preferences, num_recommendations) ==
    LET all_recipes == get_recipes(1000, 0)
        keep == {i \in DOMAIN all_recipes :
                    Kept(ScoreOf(all_recipes[i], preferences))}
        earlier == IF IsNone(served) THEN <<>> ELSE Get(served).result
        scored_recipes == earlier \o SelectIdx([i \in DOMAIN all_recipes |->
                              Entry(all_recipes[i], preferences)], keep)
    IN  SliceTo(SortByTotal(scored_recipes), num_recommendations)

\* EnhancedRecipeRecommender.get_recommendations, the returned list
Recommendations(preferences, num_recommendations) ==
    LET all_recipes == get_recipes(1000, 0)
        keep == {i \in DOMAIN all_recipes :
                    Kept(ScoreOf(all_recipes[i], preferences))}
        scored_recipes == SelectIdx([i \in DOMAIN all_recipes |->
                              Entry(all_recipes[i], preferences)], keep)
    IN  SliceTo(SortByTotal(scored_recipes), num_recommendations)

\* A get_recommendations that answers a failed fetch with an empty list
\* (except Exception: return []).
get_recommendations_EmptyOnError(preferences, num_recommendations) ==
    /\ recommender = "ready"
    /\ IsNone(request)
    /\ request' = Some([preferences |-> preferences,
                        num_recommendations |-> num_recommendations])
    /\ scored' = IF database = "down" THEN <<>>
                 ELSE LET all_recipes == get_recipes(1000, 0)
                      IN  [i \in DOMAIN all_recipes |->
                              ScoreOf(all_recipes[i], preferences)]
    /\ result' = IF database = "down" THEN Some(<<>>)
                 ELSE Some(Recommendations(preferences, num_recommendations))
    /\ UNCHANGED <<recipes, inserted, recommender, processed_ingredients,
                   ingredient_vectors, vocabulary, cosine>>
    /\ UNCHANGED <<unit_vars, step_vars, database>>

\* EnhancedRecipeRecommender.get_recommendations, called by the request
\* handler get_recipe_recommendations; the server runs one handler at a time.
\* When get_connection raises, get_recipes raises in the first statement
\* and the call ends with that exception: nothing is scored or returned.
get_recommendations(preferences, num_recommendations) ==
    /\ recommender = "ready"
    /\ IsNone(request)
    /\ request' = Some([preferences |-> preferences,
                        num_recommendations |-> num_recommendations])
    /\ scored' = IF database = "down" THEN <<>>
                 ELSE LET all_recipes == get_recipes(1000, 0)
                      IN  [i \in DOMAIN all_recipes |->
                              ScoreOf(all_recipes[i], preferences)]
    /\ result' = IF database = "down" THEN None
                 ELSE Some(Recommendations(preferences, num_recommendations))
    /\ UNCHANGED <<recipes, inserted, recommender, processed_ingredients,
                   ingredient_vectors, vocabulary, cosine>>
    /\ UNCHANGED <<unit_vars, step_vars, database>>

\* get_recipe_recommendations returns its response: the locals of the call
\* are gone.
respond ==
    /\ ~IsNone(request)
    /\ request' = None
    /\ scored' = <<>>
    /\ result' = None
    /\ UNCHANGED <<recipes, inserted, recommender, processed_ingredients,
                   ingredient_vectors, vocabulary, cosine>>
    /\ UNCHANGED <<unit_vars, step_vars, database>>

\* ------------------------------------------------------------ specification

\* No call of a pure function is on record.
NoUnitCalls ==
    /\ ingredient_text = None
    /\ normalized = <<>>
    /\ lookup = None

\* No call is followed statement by statement.
NoSteps ==
    /\ refit = None
    /\ reader = None
    /\ txn = None

\* No call is in progress or on record, and the database accepts connections.
AtRest ==
    /\ served = None
    /\ database = "up"
    /\ NoUnitCalls
    /\ NoSteps

\* The tables exist and are empty; no recommender has been constructed.
Unbuilt ==
    /\ recipes = <<>>
    /\ inserted = None
    /\ recommender = "none"
    /\ processed_ingredients = <<>>
    /\ ingredient_vectors = <<>>
    /\ vocabulary = {}
    /\ cosine = <<>>
    /\ request = None
    /\ scored = <<>>
    /\ result = None

Init == Unbuilt /\ AtRest

\* The life of a deployment: recipes are stored, the recommender is
\* constructed (again at every restart), requests are served.
Next ==
    \/ \E prep_time \in {None, Some(10)}, cook_time \in {Some(30)},
          names \in IngredientSets :
          insert_recipe(prep_time, cook_time, names) /\ UNCHANGED served
    \/ initialize_ingredient_vectors /\ UNCHANGED served
    \/ \E preferences \in ServicePreferences, num_recommendations \in Limits :
          get_recommendations(preferences, num_recommendations)
             /\ UNCHANGED served
    \/ respond /\ UNCHANGED served

Spec == Init /\ [][Next]_vars

\* A deployment with one stored recipe, any times and ingredients, whose
\* recommender was constructed from it.
InitScore ==
    /\ \E prep_time \in PrepTimes, cook_time \in CookTimes,
          names \in IngredientSets \ {{}} :
          /\ recipes = <<StoredRow(1, prep_time, cook_time, names)>>
          /\ \E ingredients \in Orders(names) :
                /\ processed_ingredients = Processed(ingredients)
                /\ ingredient_vectors = FitRows(processed_ingredients)
                /\ vocabulary = FitVocabulary(ingredient_vectors)
                /\ cosine \in [PartialPairs(ingredient_vectors, vocabulary)
                                  -> SimLevels]
    /\ inserted = Some(1)
    /\ recommender = "ready"
    /\ request = None
    /\ scored = <<>>
    /\ result = None
    /\ AtRest

\* Every shape of UserPreferences is sent to it.
NextScore ==
    \/ \E preferences \in Preferences, num_recommendations \in {5} :
          get_recommendations(preferences, num_recommendations)
             /\ UNCHANGED served
    \/ respond /\ UNCHANGED served

SpecScore == InitScore /\ [][NextScore]_vars

\* ----------------------------------------------------- the database fails

\* psycopg2.connect starts to raise: the server is stopped or unreachable.
database_fails ==
    /\ database = "up"
    /\ database' = "down"
    /\ UNCHANGED <<recipes, inserted, recommender, processed_ingredients,
                   ingredient_vectors, vocabulary, cosine, request, scored,
                   result, served, unit_vars, step_vars>>

\* The server accepts connections again.
database_recovers ==
    /\ database = "down"
    /\ database' = "up"
    /\ UNCHANGED <<recipes, inserted, recommender, processed_ingredients,
                   ingredient_vectors, vocabulary, cosine, request, scored,
                   result, served, unit_vars, step_vars>>

\* A deployment whose database comes and goes.  insert_recipe calls
\* get_connection before its try block: with the database down it raises
\* and stores nothing.
NextFault ==
    \/ \E names \in IngredientSets :
          /\ database = "up"
          /\ insert_recipe(None, Some(30), names)
          /\ UNCHANGED served
    \/ initialize_ingredient_vectors /\ UNCHANGED served
    \/ \E preferences \in RepeatPreferences :
          get_recommendations(preferences, 5) /\ UNCHANGED served
    \/ respond /\ UNCHANGED served
    \/ database_fails
    \/ database_recovers

SpecFault == Init /\ [][NextFault]_vars

\* ------------------------------------------------------- repeated requests

\* The caller keeps what the first call returned since the index and the
\* repository last changed, and notes whether other requests were served
\* after it and whether its own request was sent again.
Remember(preferences, num_recommendations) ==
    LET call == [preferences |-> preferences,
                 num_recommendations |-> num_recommendations]
    IN  served' =
           IF IsNone(served)
           THEN Some([request |-> call, result |-> Get(result'),
                      between |-> FALSE, again |-> FALSE])
           ELSE IF Get(served).request = call
           THEN Some([Get(served) EXCEPT !.again = TRUE])
           ELSE Some([Get(served) EXCEPT !.between = TRUE])

\* A deployment whose clients send the same requests again and again.
NextRepeat ==
    \/ \E prep_time \in {None}, cook_time \in {Some(30)},
          names \in IngredientSets :
          /\ insert_recipe(prep_time, cook_time, names)
          /\ served' = IF recipes' = recipes THEN served ELSE None
    \/ initialize_ingredient_vectors /\ served' = None
    \/ \E preferences \in RepeatPreferences, num_recommendations \in {1, 5} :
          /\ get_recommendations(preferences, num_recommendations)
          /\ Remember(preferences, num_recommendations)
    \/ respond /\ UNCHANGED served

SpecRepeat == Init /\ [][NextRepeat]_vars

\* ------------------------------------------------------------ index calls

\* Ingredient-name sets of the recipes of that repository.
IndexSets == {{"Garlic"}, {"chicken breast", "chicken thigh"}, CorpusNames}

\* Values of the threshold argument of find_similar_ingredients.
Thresholds == {Zero, Rat(3, 10), Rat(4, 10)}

\* A find_similar_ingredients that vectorizes the query with fit_transform in
\* place of transform: the vectorizer is fitted again, on the query alone.
find_similar_call_Refitting(query, threshold) ==
    /\ recommender = "ready"
    /\ IsNone(request)
    /\ IsNone(lookup)
    /\ lookup' = Some([query |-> query,
                       threshold |-> threshold,
                       similarities |-> Similarities(query),
                       similar |-> find_similar_ingredients(query, threshold)])
    /\ vocabulary' = Terms(preprocess_ingredient(query))
    /\ UNCHANGED <<recipes, inserted, recommender, processed_ingredients,
                   ingredient_vectors, cosine, request, scored,
                   result, served, ingredient_text, normalized, step_vars,
                   database>>

\* A find_similar_ingredients call on the processor of the recommender; the
\* process makes one call at a time.
find_similar_call(query, threshold) ==
    /\ recommender = "ready"
    /\ IsNone(request)
    /\ IsNone(lookup)
    /\ lookup' = Some([query |-> query,
                       threshold |-> threshold,
                       similarities |-> Similarities(query),
                       similar |-> find_similar_ingredients(query, threshold)])
    /\ UNCHANGED <<recipes, inserted, recommender, processed_ingredients,
                   ingredient_vectors, vocabulary, cosine, request, scored,
                   result, served, ingredient_text, normalized, step_vars,
                   database>>

\* The caller of find_similar_ingredients is done with what it returned.
find_similar_return ==
    /\ ~IsNone(lookup)
    /\ lookup' = None
    /\ UNCHANGED <<recipes, inserted, recommender, processed_ingredients,
                   ingredient_vectors, vocabulary, cosine, request, scored,
                   result, served, ingredient_text, normalized, step_vars,
                   database>>

\* Recipes are stored, the recommender is constructed, its processor is
\* queried and requests are served, one call after the other.
NextIndex ==
    \/ \E names \in IndexSets :
          /\ IsNone(lookup)
          /\ insert_recipe(None, Some(30), names)
          /\ UNCHANGED served
    \/ IsNone(lookup) /\ initialize_ingredient_vectors /\ UNCHANGED served
    \/ \E query \in QueryStrings, threshold \in Thresholds :
          find_similar_call(query, threshold)
    \/ find_similar_return
    \/ \E preferences \in {p \in RepeatPreferences :
                               IsNone(p.preferred_ingredients)} :
          /\ IsNone(lookup)
          /\ get_recommendations(preferences, 5)
          /\ UNCHANGED served
    \/ respond /\ UNCHANGED served

SpecIndex == Init /\ [][NextIndex]_vars

\* ------------------------------------------- a rebuild beside a reader

\* The ingredient lists a rebuild is given.
RefitCorpora ==
    {<<"Garlic">>, <<"chicken breast">>, <<"Garlic", "chicken breast">>,
     <<"chicken breast", "Garlic">>}

\* fit_transform_ingredients, first statement: self.processed_ingredients is
\* assigned the processed strings of the new corpus.
refit_processed(ingredients) ==
    /\ recommender = "ready"
    /\ IsNone(refit)
    /\ processed_ingredients' = Processed(ingredients)
    /\ refit' = Some(ingredients)
    /\ UNCHANGED <<recipes, inserted, recommender, ingredient_vectors,
                   vocabulary, cosine, request, scored, result, served,
                   unit_vars, reader, txn, database>>

\* fit_transform_ingredients, second statement: the vectorizer is fitted on
\* self.processed_ingredients and self.ingredient_vectors is assigned the
\* rows.
refit_vectors ==
    /\ ~IsNone(refit)
    /\ LET rows == FitRows(processed_ingredients)
           vocab == FitVocabulary(rows)
       IN  /\ ingredient_vectors' = rows
           /\ vocabulary' = vocab
           /\ cosine' \in [PartialPairs(rows, vocab) -> SimLevels]
    /\ refit' = None
    /\ UNCHANGED <<recipes, inserted, recommender, processed_ingredients,
                   request, scored, result, served, unit_vars, reader, txn,
                   database>>

\* find_similar_ingredients on another thread, up to similarities: the
\* query is vectorized and multiplied with self.ingredient_vectors.
reader_similarities(query) ==
    /\ recommender = "ready"
    /\ IsNone(reader)
    /\ reader' = Some([query |-> query,
                       similarities |-> [i \in 1..Len(ingredient_vectors) |->
                                            Similarity(query, i)],
                       returned |-> None])
    /\ UNCHANGED <<recipes, inserted, recommender, processed_ingredients,
                   ingredient_vectors, vocabulary, cosine, request, scored,
                   result, served, unit_vars, refit, txn, database>>

\* find_similar_ingredients, the comprehension and the sort: each kept
\* similarity is paired with self.processed_ingredients[i], which raises
\* IndexError when the list is shorter than similarities.
reader_similar ==
    /\ ~IsNone(reader)
    /\ IsNone(Get(reader).returned)
    /\ LET similarities == Get(reader).similarities
           keep == {i \in DOMAIN similarities :
                       RatLess(Rat(3, 10), similarities[i])}
       IN  reader' = Some([Get(reader) EXCEPT !.returned =
              IF \E i \in keep : i > Len(processed_ingredients)
              THEN Some("IndexError")
              ELSE Some(sorted_reverse(SelectIdx(
                      [i \in DOMAIN similarities |->
                          <<IF i <= Len(processed_ingredients)
                            THEN processed_ingredients[i] ELSE "",
                            similarities[i]>>], keep)))])
    /\ UNCHANGED <<recipes, inserted, recommender, processed_ingredients,
                   ingredient_vectors, vocabulary, cosine, request, scored,
                   result, served, unit_vars, refit, txn, database>>

\* The reading thread is done with the call.
reader_return ==
    /\ ~IsNone(reader)
    /\ ~IsNone(Get(reader).returned)
    /\ reader' = None
    /\ UNCHANGED <<recipes, inserted, recommender, processed_ingredients,
                   ingredient_vectors, vocabulary, cosine, request, scored,
                   result, served, unit_vars, refit, txn, database>>

\* One thread rebuilds the index of a constructed recommender while another
\* queries it.
NextRebuild ==
    \/ \E ingredients \in RefitCorpora : refit_processed(ingredients)
    \/ refit_vectors
    \/ \E query \in QueryStrings : reader_similarities(query)
    \/ reader_similar
    \/ reader_return

SpecRebuild == InitScore /\ [][NextRebuild]_vars

\* ------------------------------------------- insert_recipe by statement

\* What insert_recipe neither reads nor writes, the database apart.
outside_insert ==
    <<recommender, processed_ingredients, ingredient_vectors, vocabulary,
      cosine, request, scored, result, served, unit_vars, refit, reader>>

\* recipe_data['ingredients'] of the calls: the names in insertion order.
InsertLists == {<<>>, <<"Garlic">>, <<"Garlic", "chicken breast">>}

\* conn = get_connection(); cursor = conn.cursor().  With the database down
\* get_connection raises, before the try block: the call ends with the
\* exception and has opened nothing.
insert_recipe_connect(prep_time, cook_time, names) ==
    /\ IsNone(txn)
    /\ Len(recipes) < MaxRecipes
    /\ txn' = Some([prep_time |-> prep_time,
                    cook_time |-> cook_time,
                    names |-> names,
                    before |-> recipes,
                    pc |-> IF database = "up" THEN "recipe" ELSE "returned",
                    conn |-> IF database = "up" THEN "open" ELSE "none",
                    cursor |-> IF database = "up" THEN "open" ELSE "none",
                    recipe_row |-> FALSE,
                    ingredient_rows |-> 0,
                    failed |-> FALSE,
                    outcome |-> IF database = "up" THEN "running"
                                ELSE "raised"])
    /\ UNCHANGED <<recipes, inserted, outside_insert, database>>

\* cursor.execute(INSERT INTO recipes ... RETURNING id): the row is written
\* in the transaction of the connection.
insert_recipe_row ==
    /\ ~IsNone(txn)
    /\ Get(txn).pc = "recipe"
    /\ database = "up"
    /\ txn' = Some([Get(txn) EXCEPT !.recipe_row = TRUE, !.pc = "ingredients"])
    /\ UNCHANGED <<recipes, inserted, outside_insert, database>>

\* cursor.execute(INSERT INTO ingredients ...) for the next ingredient.
insert_ingredient_row ==
    /\ ~IsNone(txn)
    /\ Get(txn).pc = "ingredients"
    /\ Get(txn).ingredient_rows < Len(Get(txn).names)
    /\ database = "up"
    /\ txn' = Some([Get(txn) EXCEPT
                       !.ingredient_rows = Get(txn).ingredient_rows + 1])
    /\ UNCHANGED <<recipes, inserted, outside_insert, database>>

\* The statement due (an INSERT or the commit) raises: the server rejects
\* it, or the database is down and the connection is broken.  Control
\* passes to the except block.
insert_statement_fails ==
    /\ ~IsNone(txn)
    /\ Get(txn).pc \in {"recipe", "ingredients"}
    /\ txn' = Some([Get(txn) EXCEPT
                       !.failed = TRUE,
                       !.pc = "except",
                       !.conn = IF database = "down" THEN "broken" ELSE @])
    /\ UNCHANGED <<recipes, inserted, outside_insert, database>>

\* conn.commit() after the last ingredient row; return recipe_id.  The rows
\* written in the transaction become rows of the tables.
insert_recipe_commit ==
    /\ ~IsNone(txn)
    /\ Get(txn).pc = "ingredients"
    /\ Get(txn).ingredient_rows = Len(Get(txn).names)
    /\ database = "up"
    /\ recipes' = Append(recipes,
          StoredRow(Len(recipes) + 1, Get(txn).prep_time, Get(txn).cook_time,
                    {Get(txn).names[k] : k \in 1..Get(txn).ingredient_rows}))
    /\ txn' = Some([Get(txn) EXCEPT !.pc = "finally", !.outcome = "id"])
    /\ UNCHANGED <<inserted, outside_insert, database>>

\* except Exception: conn.rollback(); return None.  The rows written in the
\* transaction are dropped.  On a broken connection rollback raises
\* (connection already closed) and that exception leaves the call.
insert_recipe_rollback ==
    /\ ~IsNone(txn)
    /\ Get(txn).pc = "except"
    /\ txn' = Some([Get(txn) EXCEPT
                       !.recipe_row = FALSE,
                       !.ingredient_rows = 0,
                       !.pc = "finally",
                       !.outcome = IF Get(txn).conn = "broken" THEN "raised"
                                   ELSE "none"])
    /\ UNCHANGED <<recipes, inserted, outside_insert, database>>

\* finally: cursor.close(); release_connection(conn).  The call ends.
insert_recipe_finally ==
    /\ ~IsNone(txn)
    /\ Get(txn).pc = "finally"
    /\ txn' = Some([Get(txn) EXCEPT
                       !.pc = "returned", !.cursor = "closed", !.conn = "closed"])
    /\ inserted' = IF Get(txn).outcome = "id" THEN Some(Len(recipes))
                   ELSE IF Get(txn).outcome = "none" THEN None
                   ELSE inserted
    /\ UNCHANGED <<recipes, outside_insert, database>>

\* The caller is done with the call.
insert_recipe_return ==
    /\ ~IsNone(txn)
    /\ Get(txn).pc = "returned"
    /\ txn' = None
    /\ UNCHANGED <<recipes, inserted, outside_insert, database>>

\* insert_recipe calls, one at a time, on a database that comes and goes.
NextInsert ==
    \/ \E prep_time \in {None, Some(10)}, names \in InsertLists :
          insert_recipe_connect(prep_time, Some(30), names)
    \/ insert_recipe_row
    \/ insert_ingredient_row
    \/ insert_statement_fails
    \/ insert_recipe_commit
    \/ insert_recipe_rollback
    \/ insert_recipe_finally
    \/ insert_recipe_return
    \/ database_fails
    \/ database_recovers

SpecInsert == Init /\ [][NextInsert]_vars

\* ------------------------------------------------------- normalizer calls

\* preprocess_ingredient is called on a text, then on what it returned.
preprocess_call ==
    /\ ~IsNone(ingredient_text)
    /\ Len(normalized) < 2
    /\ normalized' = Append(normalized,
           preprocess_words(IF normalized = <<>> THEN Get(ingredient_text)
                            ELSE normalized[Len(normalized)]))
    /\ UNCHANGED <<recipes, inserted, recommender, processed_ingredients,
                   ingredient_vectors, vocabulary, cosine, request, scored,
                   result, served, ingredient_text, lookup, step_vars,
                   database>>

\* Every text of at most MaxWords words and marks.
InitNormalize ==
    /\ Unbuilt
    /\ ingredient_text \in {Some(words) : words \in Lists(Lexemes, MaxWords)}
    /\ normalized = <<>>
    /\ lookup = None
    /\ served = None
    /\ database = "up"
    /\ NoSteps

NextNormalize == preprocess_call

SpecNormalize == InitNormalize /\ [][NextNormalize]_vars

\* ------------------------------------------------------------------- claims

\* A get_recommendations call has returned and its handler has not yet.
Called == ~IsNone(request)

Prefs == Get(request).preferences

Limit == Get(request).num_recommendations

Returned == Get(result)

ScoreFields ==
    {"ingredient_match", "time_score", "preference_score",
     "exclusion_penalty", "total_score"}

\* Some excluded ingredient of p equals, ignoring case, an ingredient name of
\* the recipe.
ExcludedHit(p, recipe) ==
    /\ ~IsNone(p.excluded_ingredients)
    /\ \E j \in DOMAIN Get(p.excluded_ingredients) :
          \E n \in recipe.ingredients :
             Lower(Get(p.excluded_ingredients)[j]) = Lower(n)

\* C1: exclusion dominance: a recipe holding, ignoring case, one of the
\* user's excluded ingredients is never among the returned recommendations,
\* whatever the other preferences are.
C1_ExclusionDominance ==
    Called => \A k \in DOMAIN Returned : ~ExcludedHit(Prefs, Returned[k].recipe)

\* C2: every returned recommendation has total_score > 0, and a candidate
\* whose total_score is 0 or negative is not in the returned list.
C2_PositiveTotals ==
    Called =>
       /\ \A k \in DOMAIN Returned : RatLess(Zero, Returned[k].scores.total_score)
       /\ \A i \in DOMAIN scored :
             RatLeq(scored[i].total_score, Zero)
                => \A k \in DOMAIN Returned : Returned[k].recipe.id # recipes[i].id

\* A call returned a recommendation while another candidate, whose total is
\* exactly 0, was dropped.
C2_Witness ==
    /\ Called
    /\ Returned # <<>>
    /\ \E i \in DOMAIN scored : scored[i].total_score = Zero

\* C3: the returned list is in descending total_score order, and returned
\* recipes with equal total_score are in ascending id order.
C3_Ordered ==
    Called =>
       \A k, l \in DOMAIN Returned :
          k < l =>
             /\ RatLeq(Returned[l].scores.total_score, Returned[k].scores.total_score)
             /\ Returned[k].scores.total_score = Returned[l].scores.total_score
                   => Returned[k].recipe.id < Returned[l].recipe.id

\* Two recipes with the same total_score were returned.
C3_Witness ==
    /\ Called
    /\ Len(Returned) = 2
    /\ Returned[1].scores.total_score = Returned[2].scores.total_score

\* C4: at most max(limit, 0) recommendations are returned: none when the
\* limit is 0 or negative.
C4_AtMostLimit ==
    Called => Len(Returned) <= (IF Limit > 0 THEN Limit ELSE 0)

\* total_score = 0.4 im + 0.3 ts + 0.3 ps - 1.0 pen, over the integers.
Recomputable(sc) ==
    LET im == sc.ingredient_match
        ts == sc.time_score
        ps == sc.preference_score
        pen == sc.exclusion_penalty
        tot == sc.total_score
    IN  10 * tot[1] * im[2] * ts[2] * ps[2] * pen[2]
           = tot[2] * (4 * im[1] * ts[2] * ps[2] * pen[2]
                       + 3 * ts[1] * im[2] * ps[2] * pen[2]
                       + 3 * ps[1] * im[2] * ts[2] * pen[2]
                       - 10 * pen[1] * im[2] * ts[2] * ps[2])

\* C5: every score record, of a candidate and of a returned recommendation,
\* has the five fields, and its total_score is the weighted sum of the four
\* components stored beside it.
C5_TotalFromComponents ==
    Called =>
       /\ \A i \in DOMAIN scored :
             DOMAIN scored[i] = ScoreFields /\ Recomputable(scored[i])
       /\ \A k \in DOMAIN Returned :
             /\ DOMAIN Returned[k].scores = ScoreFields
             /\ Recomputable(Returned[k].scores)

\* A candidate was scored with all four components different from 0.
C5_Witness ==
    /\ Called
    /\ \E i \in DOMAIN scored :
          /\ scored[i].ingredient_match # Zero
          /\ scored[i].time_score # Zero
          /\ scored[i].preference_score # Zero
          /\ scored[i].exclusion_penalty # Zero

\* The time score of the specification, for known times and max_time # 0 or
\* total_time <= max_time.
ReferenceTimeScore(total_time, max_time) ==
    IF IsNone(total_time) \/ IsNone(max_time) THEN Zero
    ELSE IF Get(total_time) <= Get(max_time) THEN One
    ELSE RatMax(Zero, RatSub(One, Rat(Get(total_time) - Get(max_time),
                                      Get(max_time))))

\* C6: time_score is the reference function of (total_time, max_time): 1
\* when both are known and total_time <= max_time, total_time = 0 included;
\* the linear decay when total_time > max_time; 0 when either is unknown.
C6_TimeScoreReference ==
    Called =>
       \A i \in DOMAIN scored :
          (IsNone(Prefs.max_time) \/ IsNone(recipes[i].total_time)
              \/ Get(Prefs.max_time) # 0
              \/ Get(recipes[i].total_time) <= Get(Prefs.max_time))
             => scored[i].time_score
                   = ReferenceTimeScore(recipes[i].total_time, Prefs.max_time)

\* C7: ingredient_match lies in [0, 1], and is 0 when the user supplied no
\* available ingredients.
C7_IngredientMatchRange ==
    Called =>
       \A i \in DOMAIN scored :
          /\ RatLeq(Zero, scored[i].ingredient_match)
          /\ RatLeq(scored[i].ingredient_match, One)
          /\ ~TruthyList(Prefs.available_ingredients)
                => scored[i].ingredient_match = Zero

\* The recipe ingredient r is matched by the user ingredient u through the
\* index: an entry more than 0.5 similar to u is r itself or similar to r.
MatchedVia(u, r) ==
    \E e \in DOMAIN ingredient_vectors :
       /\ RatLess(Rat(5, 10), Similarity(u, e))
       /\ \/ processed_ingredients[e] = preprocess_ingredient(r)
          \/ RatLess(Rat(3, 10), Similarity(r, e))

\* The number of ingredients of the recipe matched by some available
\* ingredient.
MatchedCount(p, recipe) ==
    IF TruthyList(p.available_ingredients)
    THEN Cardinality({r \in get_recipe_ingredients(recipe) :
            \E j \in DOMAIN Get(p.available_ingredients) :
               MatchedVia(Get(p.available_ingredients)[j], r)})
    ELSE 0

\* C8: ingredient_match is the number of the recipe's ingredients matched by
\* some available ingredient, divided by the number of its ingredients (0
\* for a recipe without ingredients).
C8_MatchedFraction ==
    Called =>
       \A i \in DOMAIN scored :
          scored[i].ingredient_match
             = (IF recipes[i].ingredients = {} THEN Zero
                ELSE Rat(MatchedCount(Prefs, recipes[i]),
                         Cardinality(get_recipe_ingredients(recipes[i]))))

\* The user's preferred ingredients, each name once, ignoring case.
PreferredOf(p) ==
    IF IsNone(p.preferred_ingredients) THEN {}
    ELSE {Lower(Get(p.preferred_ingredients)[j]) :
             j \in DOMAIN Get(p.preferred_ingredients)}

\* Those of them that are, ignoring case, the name of an ingredient of the
\* recipe.
PreferredFound(p, recipe) ==
    {x \in PreferredOf(p) : \E n \in recipe.ingredients : Lower(n) = x}

\* C9: preference_score is the fraction of the user's preferred ingredients
\* (each counted once, ignoring case) that are the name of an ingredient of
\* the recipe, by equality of the names and not by the fuzzy matcher; it
\* lies in [0, 1] and is 0 when no preferred ingredient was supplied.
C9_PreferenceFraction ==
    Called =>
       \A i \in DOMAIN scored :
          LET ps == scored[i].preference_score
              all == Cardinality(PreferredOf(Prefs))
              found == Cardinality(PreferredFound(Prefs, recipes[i]))
          IN  /\ RatLeq(Zero, ps) /\ RatLeq(ps, One)
              /\ IF all = 0 THEN ps = Zero ELSE ps[1] * all = found * ps[2]

\* One of two preferred ingredients is found: "GARLIC" is an ingredient of
\* the recipe up to case, "chicken" is none although the index holds an
\* entry more than 0.5 similar to it.
C9_Witness ==
    /\ Called
    /\ \E i \in DOMAIN scored :
          /\ scored[i].preference_score = Rat(1, 2)
          /\ PreferredOf(Prefs) = {"garlic", "chicken"}
          /\ recipes[i].ingredients = {"Garlic", "chicken breast"}
          /\ AnyAboveInner(find_similar_ingredients("chicken", Rat(3, 10)))

\* C10: get_recommendations returns for every set of absent preference
\* fields; the component that depends on an absent field is 0; with all
\* four absent every candidate scores 0 throughout and nothing is returned.
C10_AbsentFieldsNeutral ==
    Called =>
       /\ ~IsNone(result)
       /\ \A i \in DOMAIN scored :
             /\ IsNone(Prefs.available_ingredients)
                   => scored[i].ingredient_match = Zero
             /\ IsNone(Prefs.max_time) => scored[i].time_score = Zero
             /\ IsNone(Prefs.preferred_ingredients)
                   => scored[i].preference_score = Zero
             /\ IsNone(Prefs.excluded_ingredients)
                   => scored[i].exclusion_penalty = Zero
       /\ (/\ IsNone(Prefs.available_ingredients)
           /\ IsNone(Prefs.max_time)
           /\ IsNone(Prefs.preferred_ingredients)
           /\ IsNone(Prefs.excluded_ingredients))
             => /\ \A i \in DOMAIN scored : scored[i].total_score = Zero
                /\ Returned = <<>>

\* A request without any field was served from two stored recipes.
C10_Witness ==
    /\ Called
    /\ IsNone(Prefs.available_ingredients)
    /\ IsNone(Prefs.max_time)
    /\ IsNone(Prefs.preferred_ingredients)
    /\ IsNone(Prefs.excluded_ingredients)
    /\ Len(scored) = 2
    /\ Returned = <<>>

\* The fuzzy similarity of the user ingredient u to the recipe ingredient r:
\* the cosine of u with the index entry of r (0 when the index has none).
FuzzySimilarity(u, r) ==
    LET entries == {e \in DOMAIN processed_ingredients :
                       processed_ingredients[e] = preprocess_ingredient(r)}
    IN  IF entries = {} THEN Zero
        ELSE Similarity(u, CHOOSE e \in entries : TRUE)

\* The recipe ingredients more than 0.3 similar to the user ingredient u.
MatchedBy(u, recipe) ==
    {r \in get_recipe_ingredients(recipe) :
        RatLess(Rat(3, 10), FuzzySimilarity(u, r))}

\* The user-available ingredients of the request.
AvailableOf(p) ==
    IF IsNone(p.available_ingredients) THEN {}
    ELSE Range(Get(p.available_ingredients))

\* C11: in every returned recommendation matching_ingredients maps each
\* user-available ingredient u to exactly the recipe ingredients whose fuzzy
\* similarity to u exceeds 0.3, and holds no key for a user ingredient
\* without such a recipe ingredient.
C11_MatchingPerUserIngredient ==
    Called =>
       \A k \in DOMAIN Returned :
          LET recipe == Returned[k].recipe
              matching == Returned[k].matching_ingredients
          IN  /\ DOMAIN matching
                    = {u \in AvailableOf(Prefs) : MatchedBy(u, recipe) # {}}
              /\ \A u \in DOMAIN matching : matching[u] = MatchedBy(u, recipe)

C13_ZeroCorpusSafe ==
    (recommender # "none" /\ processed_ingredients = <<>>)
       => /\ recommender = "ready"
          /\ \A query \in QueryStrings :
                find_similar_ingredients(query, Rat(3, 10)) = <<>>

\* C14: normalizer idempotence: preprocess_ingredient applied to its own
\* result returns that result, for every ingredient text.
C14_Idempotent ==
    Len(normalized) = 2 => normalized[2] = normalized[1]

\* The rows of a find_similar_ingredients call whose similarity is above its
\* threshold.
AboveThreshold(call) ==
    {i \in DOMAIN call.similarities :
        RatLess(call.threshold, call.similarities[i][2])}

\* The place of row i among them: after the rows with a greater similarity
\* and after the earlier rows with the same similarity.
PlaceOf(call, i) ==
    1 + Cardinality({j \in AboveThreshold(call) :
            \/ RatLess(call.similarities[i][2], call.similarities[j][2])
            \/ /\ call.similarities[j][2] = call.similarities[i][2]
               /\ j < i})

\* C15: find_similar_ingredients returns exactly the corpus entries whose
\* similarity to the query is strictly greater than the threshold, by
\* descending score, entries of equal score in corpus order.
C15_AboveThresholdSorted ==
    ~IsNone(lookup) =>
       LET call == Get(lookup)
       IN  /\ Len(call.similar) = Cardinality(AboveThreshold(call))
           /\ \A i \in AboveThreshold(call) :
                 call.similar[PlaceOf(call, i)] = call.similarities[i]

\* A call left out a row whose similarity equals the threshold and returned
\* two rows of equal similarity.
C15_Witness ==
    /\ ~IsNone(lookup)
    /\ \E i \in DOMAIN Get(lookup).similarities :
          Get(lookup).similarities[i][2] = Get(lookup).threshold
    /\ Len(Get(lookup).similar) = 2
    /\ Get(lookup).similar[1][2] = Get(lookup).similar[2][2]
    /\ Get(lookup).similar[1][1] # Get(lookup).similar[2][1]

\* C16: a stored recipe whose prep_time and cook_time are both known has
\* total_time = prep_time + cook_time; one of which either is unknown has an
\* unknown total_time.
C16_TotalTimeKnownOnlyFromBoth ==
    \A i \in DOMAIN get_recipes(1000, 0) :
       LET recipe == get_recipes(1000, 0)[i]
       IN  IF ~IsNone(recipe.prep_time) /\ ~IsNone(recipe.cook_time)
           THEN recipe.total_time
                   = Some(Get(recipe.prep_time) + Get(recipe.cook_time))
           ELSE IsNone(recipe.total_time)

\* The recommender object and its index.
Built ==
    <<recommender, processed_ingredients, ingredient_vectors, vocabulary,
      cosine>>

\* C17: a repository fetch that fails during get_recommendations or during
\* the construction of the recommender ends the call with the error: no
\* list is returned, the fetch is not tried again when the database is
\* back, a failed construction leaves no recommender and no index, and
\* without a recommender no request is served.
C17_FetchFailurePropagates ==
    [][/\ (database = "down" /\ IsNone(request) /\ ~IsNone(request'))
             => IsNone(result')
       /\ (Called /\ IsNone(result) /\ ~IsNone(request'))
             => IsNone(result')
       /\ (database = "down" /\ Built' # Built)
             => /\ recommender' = "failed"
                /\ processed_ingredients' = <<>>
                /\ ingredient_vectors' = <<>>
       /\ (recommender # "ready" /\ IsNone(request))
             => IsNone(request')]_vars

\* A request failed on the fetch although recipes are stored and indexed,
\* and the database has come back since.
C17_Witness ==
    /\ Called
    /\ IsNone(result)
    /\ database = "up"
    /\ recommender = "ready"
    /\ Len(recipes) = 2
    /\ processed_ingredients # <<>>

\* The vector index: the processed corpus entries, their vectors and the
\* fitted vectorizer.
IndexOf == <<processed_ingredients, ingredient_vectors, vocabulary, cosine>>

\* C18: the index is read-only after initialization: a get_recommendations
\* call, a find_similar_ingredients call and an insert_recipe call leave it
\* as it is, it changes only when the recommender is initialized again, and
\* get_recommendations and find_similar_ingredients write nothing to the
\* repository.
C18_IndexReadOnly ==
    [][/\ (\/ IsNone(request) /\ ~IsNone(request')
           \/ IsNone(lookup) /\ ~IsNone(lookup')
           \/ recipes' # recipes
           \/ inserted' # inserted)
             => IndexOf' = IndexOf
       /\ IndexOf' # IndexOf => initialize_ingredient_vectors
       /\ (\/ IsNone(request) /\ ~IsNone(request')
           \/ IsNone(lookup) /\ ~IsNone(lookup'))
             => recipes' = recipes]_vars

\* A request is served from an index that is older than the repository: a
\* stored ingredient has no entry in it.
C18_Witness ==
    /\ Called
    /\ ~IsNone(result)
    /\ \E i \in DOMAIN recipes :
          \E n \in recipes[i].ingredients :
             \A e \in DOMAIN processed_ingredients :
                processed_ingredients[e] # preprocess_ingredient(n)
    /\ processed_ingredients # <<>>

\* C19: a find_similar_ingredients call that runs beside a rebuild never
\* meets a partially built index: processed_ingredients, ingredient_vectors
\* and the vocabulary are, at each of its steps, those of one corpus.
C19_NoPartialIndex ==
    ~IsNone(reader) =>
       /\ Len(processed_ingredients) = Len(ingredient_vectors)
       /\ ingredient_vectors = FitRows(processed_ingredients)
       /\ vocabulary = FitVocabulary(ingredient_vectors)

\* An insert_recipe call has ended.
Inserted == ~IsNone(txn) /\ Get(txn).pc = "returned"

\* What the call that ended was to store.
RowOf(call) ==
    StoredRow(Len(call.before) + 1, call.prep_time, call.cook_time,
              {call.names[k] : k \in DOMAIN call.names})

\* The call stored its recipe with all of its ingredients, or nothing.
AllOrNothing(call) ==
    IF call.outcome = "id"
    THEN recipes = Append(call.before, RowOf(call))
    ELSE recipes = call.before

\* The cursor and the connection the call opened are closed.
Released(call) ==
    call.conn \in {"closed", "none"} /\ call.cursor \in {"closed", "none"}

\* C20: insert_recipe is all-or-nothing: it commits the recipe row with all
\* of its ingredient rows and returns the id, or, when a statement fails,
\* stores no row of the call and returns None; on both paths the cursor and
\* the connection it opened are closed.
C20_AllOrNothing ==
    Inserted =>
       /\ AllOrNothing(Get(txn))
       /\ Released(Get(txn))
       /\ Get(txn).failed => Get(txn).outcome = "none"
       /\ Get(txn).outcome = "id" => ~Get(txn).failed

====
